---- MODULE Spec2Model ----
(***************************************************************************)
(* Model of untitled_space_game: the instance batch (InstanceSet), the     *)
(* render scene (SceneRenderData), the world (World, its entities) and the *)
(* frame (App::update, App::render).                                       *)
(*                                                                         *)
(* The specifications of the module:                                       *)
(*   SetSpec     one InstanceSet driven through add / update / remove;     *)
(*   Spec        the World, driven through its operations and frames;      *)
(*   PhysSpec    frames over a world whose physics scene holds bodies;     *)
(*   SceneSpec   the SceneRenderData driven through its operations;        *)
(*   HandleSpec  the handle-taking operations, stale handles included.     *)
(***************************************************************************)
EXTENDS Integers, Sequences, FiniteSets, TLC

VARIABLES
    set,            \* SetSpec: the InstanceSet under test
    setOp,          \* SetSpec: the last operation applied to it (history)
    entities,       \* World.entities : SlotMap<EntityId, Box<dyn Entity>>
    player_entity,  \* World.player_entity
    rendering,      \* World.world_info.rendering : SceneRenderData
    physics,        \* World.world_info.physics : PhysicsScene
    pc,             \* position inside App::update: 0 = not in a frame
    cursor,         \* position of the entity iterator of World::update
    frame,          \* history: what the current / last frame did, in order
    op,             \* history: the last World-level operation
    drawn,          \* what the last render_scene read from each batch
    module_load,    \* LoadSpec: a call of load_modules_from_directory
    mesh_load       \* MeshSpec: a call of Renderer::load_mesh

setVars == <<set, setOp>>
worldVars == <<entities, player_entity, rendering, physics, pc, cursor, frame, op, drawn>>
assetVars == <<module_load, mesh_load>>
vars == <<set, setOp, entities, player_entity, rendering, physics, pc, cursor, frame, op, drawn,
          module_load, mesh_load>>

(***************************************************************************)
(* Bounds of the model.                                                    *)
(***************************************************************************)
\* capacity handed to InstanceSet::new in SetSpec
Capacity == 3
\* number of distinct handles the caller of the InstanceSet has
MaxHandles == 4

\* the positions and the rotations a transform can take: the model keeps f32
\* vectors and quaternions as residues, and adds them modulo their number
Positions == {0, 1}
Rotations == {0, 1}

NPos == Cardinality(Positions)
NRot == Cardinality(Rotations)

\* a 4x4 matrix, kept as the scale, rotation and translation it was built of
Mat(scale, rotation, position) == [scale |-> scale, rotation |-> rotation, position |-> position]

\* content of a buffer element nobody has written (wgpu zero-initialises)
Zero == Mat(0, 0, 0)

\* the matrices the caller of the InstanceSet hands in (SetSpec)
Matrices == {Mat(1, 0, 0), Mat(1, 0, 1)}

\* Option<T>: None is the empty sequence, Some(x) is <<x>>
None == << >>
Some(x) == <<x>>

(***************************************************************************)
(* Keys of a slot map: an index and the version of the slot at insertion.  *)
(***************************************************************************)
Key(i, v) == [idx |-> i, ver |-> v]

Handles == {Key(i, 1) : i \in 1..MaxHandles}

(***************************************************************************)
(* InstanceSet<T>                                                          *)
(***************************************************************************)
\* InstanceSet::new: count 0, empty map, a buffer of `capacity` elements
InstanceSet_new(capacity) ==
    [count |-> 0,
     capacity |-> capacity,
     instance_map |-> << >>,
     buffer |-> << >>]

\* a map with one entry inserted or replaced (HashMap::insert)
MapInsert(m, k, v) == [x \in (DOMAIN m) \cup {k} |-> IF x = k THEN v ELSE m[x]]

\* a map with one entry removed (HashMap::remove)
MapRemove(m, k) == [x \in (DOMAIN m) \ {k} |-> m[x]]

\* the buffer's element `index`. The buffer holds `capacity` elements; the
\* model stores the written ones and reads the others as zero.
BufferAt(s, index) == IF index \in DOMAIN s.buffer THEN s.buffer[index] ELSE Zero

\* queue.write_buffer at byte offset index * size_of::<T>()
write_index(s, index, data) == [s EXCEPT !.buffer = MapInsert(s.buffer, index, data)]

Entry(index, data) == [index |-> index, data |-> data]

\* size_of::<T>() in bytes, T = [f32; 16]
size_of_T == 64

\* a seeded slip: the element index used as the byte offset
write_buffer_unscaled(index, data) == [offset |-> index, data |-> data]

\* the one queue.write_buffer call write_index issues: the element's bytes at
\* byte offset index * size_of::<T>()
write_buffer(index, data) == [offset |-> index * size_of_T, data |-> data]

\* a seeded slip: add that forgets to count the new instance
InstanceSet_add_nocount(s, key, data) ==
    [ok |-> TRUE,
     writes |-> <<write_buffer(s.count, data)>>,
     set |-> [write_index(s, s.count, data) EXCEPT
                 !.instance_map = MapInsert(s.instance_map, key, Entry(s.count, data))]]

\* InstanceSet::add: the count is incremented first, then checked; `writes`
\* are the buffer writes the call issued, in order
InstanceSet_add(s, key, data) ==
    LET next_index == s.count
        counted == [s EXCEPT !.count = s.count + 1]
    IN  IF counted.count > counted.capacity
        THEN [ok |-> FALSE, writes |-> << >>, set |-> counted]     \* todo!() panics here
        ELSE [ok |-> TRUE,
              writes |-> <<write_buffer(next_index, data)>>,
              set |-> [write_index(counted, next_index, data) EXCEPT
                          !.instance_map = MapInsert(counted.instance_map, key,
                                                     Entry(next_index, data))]]

\* a seeded slip: update that falls back to slot 0 when the key is not in
\* the map, instead of panicking
InstanceSet_update_or_first(s, key, data) ==
    LET index == IF key \in DOMAIN s.instance_map THEN s.instance_map[key].index ELSE 0
    IN  [ok |-> TRUE,
         writes |-> <<write_buffer(index, data)>>,
         set |-> [write_index(s, index, data) EXCEPT
                     !.instance_map = MapInsert(s.instance_map, key, Entry(index, data))]]

\* a seeded slip: update that writes the buffer and forgets the map entry
InstanceSet_update_buffer_only(s, key, data) ==
    IF key \notin DOMAIN s.instance_map
    THEN [ok |-> FALSE, writes |-> << >>, set |-> s]
    ELSE [ok |-> TRUE,
          writes |-> <<write_buffer(s.instance_map[key].index, data)>>,
          set |-> write_index(s, s.instance_map[key].index, data)]

\* InstanceSet::update: unwrap panics when the key is not in the map
InstanceSet_update(s, key, data) ==
    IF key \notin DOMAIN s.instance_map
    THEN [ok |-> FALSE, writes |-> << >>, set |-> s]
    ELSE LET index == s.instance_map[key].index
         IN  [ok |-> TRUE,
              writes |-> <<write_buffer(index, data)>>,
              set |-> [write_index(s, index, data) EXCEPT
                          !.instance_map = MapInsert(s.instance_map, key, Entry(index, data))]]

\* InstanceSet::remove: the set of outcomes. The entry is taken out of the
\* map, then an entry whose index equals last_index = count (the count
\* before the decrement) is searched in the map's iteration order, which is
\* unspecified: any matching entry may be the one found. `backfill` is the key
\* of the entry that was moved to the removed slot (None when none was found).
InstanceSet_remove(s, key) ==
    IF key \notin DOMAIN s.instance_map
    THEN {[ok |-> FALSE, writes |-> << >>, backfill |-> None, set |-> s]}
    ELSE LET removed_entry == s.instance_map[key]
             rest == MapRemove(s.instance_map, key)
             last_index == s.count
             found == {k \in DOMAIN rest : rest[k].index = last_index}
             dec(t) == [t EXCEPT !.count = t.count - 1]
         IN  IF found = {}
             THEN {[ok |-> TRUE, writes |-> << >>, backfill |-> None,
                    set |-> dec([s EXCEPT !.instance_map = rest])]}
             ELSE {[ok |-> TRUE,
                    writes |-> <<write_buffer(removed_entry.index, rest[k].data)>>,
                    backfill |-> Some(k),
                    set |-> dec([write_index(s, removed_entry.index, rest[k].data) EXCEPT
                                    !.instance_map =
                                        MapInsert(rest, k, Entry(removed_entry.index, rest[k].data))])]
                   : k \in found}

\* InstanceSet::len
InstanceSet_len(s) == s.count

\* InstanceSet::is_empty
InstanceSet_is_empty(s) == s.count = 0

(***************************************************************************)
(* SetSpec: one InstanceSet, its caller adding fresh handles, updating and *)
(* removing live ones.                                                     *)
(***************************************************************************)
SetInit ==
    /\ set = InstanceSet_new(Capacity)
    /\ setOp = [name |-> "new", key |-> Key(0, 1), data |-> Zero, ok |-> TRUE,
                slot |-> 0 - 1, moved |-> FALSE, writes |-> << >>, backfill |-> None]

SetAlive == setOp.ok

Set_add ==
    \E key \in Handles, data \in Matrices :
        /\ SetAlive
        /\ key \notin DOMAIN set.instance_map
        /\ LET r == InstanceSet_add(set, key, data)
           IN  /\ set' = r.set
               /\ setOp' = [name |-> "add", key |-> key, data |-> data, ok |-> r.ok,
                            slot |-> set.count, moved |-> FALSE,
                            writes |-> r.writes, backfill |-> None]
        /\ UNCHANGED <<worldVars, assetVars>>

Set_update ==
    \E key \in Handles, data \in Matrices :
        /\ SetAlive
        /\ key \in DOMAIN set.instance_map
        /\ LET r == InstanceSet_update(set, key, data)
           IN  /\ set' = r.set
               /\ setOp' = [name |-> "update", key |-> key, data |-> data, ok |-> r.ok,
                            slot |-> set.instance_map[key].index, moved |-> FALSE,
                            writes |-> r.writes, backfill |-> None]
        /\ UNCHANGED <<worldVars, assetVars>>

Set_remove ==
    \E key \in Handles :
        /\ SetAlive
        /\ key \in DOMAIN set.instance_map
        /\ \E r \in InstanceSet_remove(set, key) :
               /\ set' = r.set
               /\ setOp' = [name |-> "remove", key |-> key, data |-> Zero, ok |-> r.ok,
                            slot |-> set.instance_map[key].index,
                            moved |-> r.set.buffer # set.buffer
                                      \/ \E k \in DOMAIN r.set.instance_map :
                                             r.set.instance_map[k] # set.instance_map[k],
                            writes |-> r.writes, backfill |-> r.backfill]
        /\ UNCHANGED <<worldVars, assetVars>>

SetNext ==
    \/ Set_add
    \/ Set_update
    \/ Set_remove

(***************************************************************************)
(* SlotMap<K, V> (the slotmap crate): slots with a version, odd while      *)
(* occupied; a removed slot is reused, last freed first, under a new       *)
(* version. The null key (K::default()) names no slot.                     *)
(***************************************************************************)
\* bounds: slots of the entity table, and entities ever added to it
MaxSlots == 2
MaxAdds == 3
\* bound: rigid bodies the physics scene ever creates
MaxBodies == 1

NullKey == Key(0, 1)

SlotMap_new == [slots |-> << >>, free |-> << >>]

SlotMap_contains_key(sm, k) ==
    /\ k.idx \in 1..Len(sm.slots)
    /\ sm.slots[k.idx].version = k.ver

\* SlotMap::get, as an Option
SlotMap_get(sm, k) == IF SlotMap_contains_key(sm, k) THEN sm.slots[k.idx].value ELSE None

\* a seeded slip: insert that reuses a freed slot under the version it had
\* when it was last occupied
SlotMap_insert_same_version(sm, v) ==
    IF sm.free # << >>
    THEN LET i == Head(sm.free)
             ver == sm.slots[i].version - 1
         IN  [key |-> Key(i, ver),
              map |-> [slots |-> [sm.slots EXCEPT ![i] = [version |-> ver, value |-> Some(v)]],
                       free |-> Tail(sm.free)]]
    ELSE LET i == Len(sm.slots) + 1
         IN  [key |-> Key(i, 1),
              map |-> [slots |-> Append(sm.slots, [version |-> 1, value |-> Some(v)]),
                       free |-> sm.free]]

\* SlotMap::insert: the key issued and the map after
SlotMap_insert(sm, v) ==
    IF sm.free # << >>
    THEN LET i == Head(sm.free)
             ver == sm.slots[i].version + 1
         IN  [key |-> Key(i, ver),
              map |-> [slots |-> [sm.slots EXCEPT ![i] = [version |-> ver, value |-> Some(v)]],
                       free |-> Tail(sm.free)]]
    ELSE LET i == Len(sm.slots) + 1
         IN  [key |-> Key(i, 1),
              map |-> [slots |-> Append(sm.slots, [version |-> 1, value |-> Some(v)]),
                       free |-> sm.free]]

\* the key the next insert will issue
SlotMap_next_key(sm) ==
    IF sm.free # << >> THEN Key(Head(sm.free), sm.slots[Head(sm.free)].version + 1)
    ELSE Key(Len(sm.slots) + 1, 1)

\* SlotMap::remove: the map after (unchanged when the key names nothing)
SlotMap_remove(sm, k) ==
    IF SlotMap_contains_key(sm, k)
    THEN [slots |-> [sm.slots EXCEPT ![k.idx] = [version |-> k.ver + 1, value |-> None]],
          free |-> <<k.idx>> \o sm.free]
    ELSE sm

\* SlotMap::get_mut followed by a write through the reference
SlotMap_set(sm, k, v) == [sm EXCEPT !.slots[k.idx].value = Some(v)]

\* the number of inserts a slot map has seen: a slot at version v has been
\* filled (v + 1) \div 2 times
RECURSIVE SlotMap_inserts(_)
SlotMap_inserts(slots) ==
    IF slots = << >> THEN 0
    ELSE (Head(slots).version + 1) \div 2 + SlotMap_inserts(Tail(slots))

\* the keys of the occupied slots
SlotMap_keys(sm) ==
    {Key(i, sm.slots[i].version) : i \in {j \in 1..Len(sm.slots) : sm.slots[j].value # None}}

(***************************************************************************)
(* Transform                                                               *)
(***************************************************************************)
Transform(position, rotation) == [position |-> position, rotation |-> rotation, scale |-> 1]

\* Transform::default
Transform_default == Transform(0, 0)

\* Transform::as_model_matrix
as_model_matrix(t) == Mat(t.scale, t.rotation, t.position)

(***************************************************************************)
(* PhysicsScene: the rigid bodies and colliders, by handle. Gravity is     *)
(* zero, so a step moves a body by its angular velocity alone.             *)
(***************************************************************************)
PhysicsScene_new == [rigid_body_set |-> SlotMap_new, collider_set |-> SlotMap_new]

RigidBody(position, rotation) == [position |-> position, rotation |-> rotation, angvel |-> 0]

StepBody(slot) ==
    IF slot.value = None THEN slot
    ELSE [slot EXCEPT !.value =
            Some([slot.value[1] EXCEPT !.rotation = (@ + slot.value[1].angvel) % NRot])]

\* PhysicsScene::step_physics
step_physics(ph) ==
    [ph EXCEPT !.rigid_body_set.slots =
        [i \in 1..Len(ph.rigid_body_set.slots) |-> StepBody(ph.rigid_body_set.slots[i])]]

\* PhysicsScene::create_rigid_body
create_rigid_body(ph, position, rotation) ==
    LET r == SlotMap_insert(ph.rigid_body_set, RigidBody(position, rotation))
    IN  [handle |-> r.key, physics |-> [ph EXCEPT !.rigid_body_set = r.map]]

\* a seeded slip: remove_rigid_body that leaves the attached colliders in
\* the collider set
remove_rigid_body_keeps_colliders(ph, handle) ==
    [ph EXCEPT !.rigid_body_set = SlotMap_remove(@, handle)]

\* PhysicsScene::remove_rigid_body: the colliders attached to the body go too
remove_rigid_body(ph, handle) ==
    IF ~SlotMap_contains_key(ph.rigid_body_set, handle) THEN ph
    ELSE LET cs == ph.collider_set
             detached == [i \in 1..Len(cs.slots) |->
                            IF cs.slots[i].value # None /\ cs.slots[i].value[1].parent = handle
                            THEN [version |-> cs.slots[i].version + 1, value |-> None]
                            ELSE cs.slots[i]]
             freed == SelectSeq([i \in 1..Len(cs.slots) |-> i],
                                LAMBDA i : cs.slots[i].value # None
                                           /\ cs.slots[i].value[1].parent = handle)
         IN  [rigid_body_set |-> SlotMap_remove(ph.rigid_body_set, handle),
              collider_set |-> [slots |-> detached, free |-> freed \o cs.free]]

\* PhysicsScene::remove_collider
remove_collider(ph, handle) == [ph EXCEPT !.collider_set = SlotMap_remove(@, handle)]

\* PhysicsScene::get_rigid_body_transform, as [ok, transform]: unwrap panics
\* when the handle names no body
get_rigid_body_transform(ph, handle) ==
    LET b == SlotMap_get(ph.rigid_body_set, handle)
    IN  IF b = None THEN [ok |-> FALSE, position |-> 0, rotation |-> 0]
        ELSE [ok |-> TRUE, position |-> b[1].position, rotation |-> b[1].rotation]

\* PhysicsScene::set_rigid_body_transform, as [ok, physics]: a handle that
\* names no body is skipped
set_rigid_body_transform(ph, handle, position, rotation) ==
    LET b == SlotMap_get(ph.rigid_body_set, handle)
    IN  IF b = None THEN [ok |-> TRUE, physics |-> ph]
        ELSE [ok |-> TRUE,
              physics |-> [ph EXCEPT !.rigid_body_set =
                              SlotMap_set(@, handle, [b[1] EXCEPT !.position = position,
                                                                  !.rotation = rotation])]]

\* a collider attached to a body: placed relative to its parent
Collider(parent, body, position, rotation) ==
    [parent |-> parent,
     position |-> (body.position + position) % NPos,
     rotation |-> (body.rotation + rotation) % NRot]

\* PhysicsScene::create_collider, as [ok, handle, physics]: insert_with_parent
\* panics when the parent handle names no body
create_collider(ph, parent_handle, position, rotation) ==
    LET b == SlotMap_get(ph.rigid_body_set, parent_handle)
    IN  IF b = None THEN [ok |-> FALSE, handle |-> NullKey, physics |-> ph]
        ELSE LET r == SlotMap_insert(ph.collider_set,
                                     Collider(parent_handle, b[1], position, rotation))
             IN  [ok |-> TRUE, handle |-> r.key,
                  physics |-> [ph EXCEPT !.collider_set = r.map]]

\* PhysicsScene::get_collider_transform, as [ok, transform]: unwrap panics
\* when the handle names no collider
get_collider_transform(ph, handle) ==
    LET c == SlotMap_get(ph.collider_set, handle)
    IN  IF c = None THEN [ok |-> FALSE, position |-> 0, rotation |-> 0]
        ELSE [ok |-> TRUE, position |-> c[1].position, rotation |-> c[1].rotation]

\* PhysicsScene::set_collider_transform, as [ok, physics]: a handle that
\* names no collider is skipped
set_collider_transform(ph, handle, position, rotation) ==
    LET c == SlotMap_get(ph.collider_set, handle)
    IN  IF c = None THEN [ok |-> TRUE, physics |-> ph]
        ELSE [ok |-> TRUE,
              physics |-> [ph EXCEPT !.collider_set =
                              SlotMap_set(@, handle, [c[1] EXCEPT !.position = position,
                                                                  !.rotation = rotation])]]

\* PhysicsScene::set_rigid_body_angular_velocity, as [ok, physics]
set_rigid_body_angular_velocity(ph, handle, angular_velocity) ==
    LET b == SlotMap_get(ph.rigid_body_set, handle)
    IN  IF b = None THEN [ok |-> FALSE, physics |-> ph]
        ELSE [ok |-> TRUE,
              physics |-> [ph EXCEPT !.rigid_body_set =
                              SlotMap_set(@, handle, [b[1] EXCEPT !.angvel = angular_velocity])]]

(***************************************************************************)
(* SceneRenderData                                                         *)
(***************************************************************************)
\* the capacity create_instance gives every batch
SceneCapacity == 1024

\* a seeded slip: a batch key that forgets the material
InstanceType_mesh_only(mesh, material) == [mesh |-> mesh, material |-> 1]

InstanceType(mesh, material) == [mesh |-> mesh, material |-> material]

\* the (mesh, material) pairs the renderer has handed out
InstanceTypes == {InstanceType(1, 1), InstanceType(2, 1)}

\* SceneRenderData::new
SceneRenderData_new == [instance_map |-> SlotMap_new, instance_set_map |-> << >>]

\* SceneRenderData::create_instance, as [ok, handle, rendering]
create_instance(r, mesh, material, transform) ==
    LET instance_type == InstanceType(mesh, material)
        ins == SlotMap_insert(r.instance_map, instance_type)
        instance_key == ins.key
        sets == IF instance_type \in DOMAIN r.instance_set_map
                THEN r.instance_set_map
                ELSE MapInsert(r.instance_set_map, instance_type, InstanceSet_new(SceneCapacity))
        added == InstanceSet_add(sets[instance_type], instance_key, as_model_matrix(transform))
    IN  [ok |-> added.ok,
         handle |-> Some(instance_key),
         rendering |-> [instance_map |-> ins.map,
                        instance_set_map |-> MapInsert(sets, instance_type, added.set)]]

\* SceneRenderData::update_instance, as [ok, rendering]
update_instance(r, key, transform) ==
    LET it == SlotMap_get(r.instance_map, key)
    IN  IF it = None \/ it[1] \notin DOMAIN r.instance_set_map
        THEN [ok |-> FALSE, rendering |-> r]
        ELSE LET u == InstanceSet_update(r.instance_set_map[it[1]], key,
                                         as_model_matrix(transform))
             IN  [ok |-> u.ok,
                  rendering |-> [r EXCEPT !.instance_set_map = MapInsert(@, it[1], u.set)]]

\* SceneRenderData::remove_instance: the set of outcomes [ok, rendering].
\* The handle is looked up in instance_map (get), never taken out of it.
remove_instance(r, key) ==
    LET it == SlotMap_get(r.instance_map, key)
    IN  IF it = None \/ it[1] \notin DOMAIN r.instance_set_map
        THEN {[ok |-> FALSE, rendering |-> r]}
        ELSE {[ok |-> u.ok,
               rendering |-> [r EXCEPT !.instance_set_map = MapInsert(@, it[1], u.set)]]
              : u \in InstanceSet_remove(r.instance_set_map[it[1]], key)}

\* Renderer::render_scene: what the draw of each batch reads, slot by slot:
\* nothing for an empty batch, else the instance range 0..len
render_scene(r) ==
    [t \in DOMAIN r.instance_set_map |->
        LET s == r.instance_set_map[t]
        IN  IF ~InstanceSet_is_empty(s)
            THEN [i \in 1..InstanceSet_len(s) |-> BufferAt(s, i - 1)]
            ELSE << >>]

(***************************************************************************)
(* Entities: Player and DynamicEntity, behind the Entity trait             *)
(***************************************************************************)
\* Player::new
Player_new(transform) ==
    [kind |-> "Player", id |-> NullKey, transform |-> transform,
     linear_input |-> 0, angular_input |-> 0,
     model |-> None, collider |-> None,
     model_instance |-> None, rigid_body_instance |-> None, collider_instance |-> None]

\* DynamicEntity::new
DynamicEntity_new(transform, model, collider) ==
    [kind |-> "DynamicEntity", id |-> NullKey, transform |-> transform,
     linear_input |-> 0, angular_input |-> 0,
     model |-> model, collider |-> collider,
     model_instance |-> None, rigid_body_instance |-> None, collider_instance |-> None]

\* what one Entity method leaves: the entity, the world_info, and whether it
\* returned (ok) or panicked
Outcome(e, r, ph, ok) == [entity |-> e, rendering |-> r, physics |-> ph, ok |-> ok]

\* Entity::set_id
set_id(e, id) == [e EXCEPT !.id = id]

\* Entity::add_to_world. Player: nothing. DynamicEntity: the render instance
\* of its model, and nothing for its collider definition.
add_to_world(e, r, ph) ==
    IF e.kind = "DynamicEntity" /\ e.model # None
    THEN LET c == create_instance(r, e.model[1].mesh, e.model[1].material, e.transform)
         IN  Outcome(IF c.ok THEN [e EXCEPT !.model_instance = c.handle] ELSE e,
                     c.rendering, ph, c.ok)
    ELSE Outcome(e, r, ph, TRUE)

\* Entity::remove_from_world: the set of outcomes. Player: nothing.
\* DynamicEntity: takes and releases its instance, its collider, its body.
remove_from_world(e, r, ph) ==
    IF e.kind # "DynamicEntity" THEN {Outcome(e, r, ph, TRUE)}
    ELSE LET e1 == [e EXCEPT !.model_instance = None]
             rs == IF e.model_instance # None
                   THEN remove_instance(r, e.model_instance[1])
                   ELSE {[ok |-> TRUE, rendering |-> r]}
             e2 == [e1 EXCEPT !.collider_instance = None]
             ph2 == IF e.collider_instance # None
                    THEN remove_collider(ph, e.collider_instance[1]) ELSE ph
             e3 == [e2 EXCEPT !.rigid_body_instance = None]
             ph3 == IF e.rigid_body_instance # None
                    THEN remove_rigid_body(ph2, e.rigid_body_instance[1]) ELSE ph2
         IN  {IF x.ok THEN Outcome(e3, x.rendering, ph3, TRUE)
                      ELSE Outcome(e1, x.rendering, ph, FALSE) : x \in rs}

\* a seeded slip: a DynamicEntity's update that refreshes its render
\* instance from the default transform instead of its own
update_writes_default(e, r, ph) ==
    IF e.kind = "Player"
    THEN Outcome([e EXCEPT !.transform =
                     Transform((e.transform.position + e.linear_input) % NPos,
                               (e.transform.rotation + e.angular_input) % NRot)],
                 r, ph, TRUE)
    ELSE IF e.model_instance # None
    THEN LET u == update_instance(r, e.model_instance[1], Transform_default)
         IN  Outcome(e, u.rendering, ph, u.ok)
    ELSE Outcome(e, r, ph, TRUE)

\* Entity::update. Player: moves by its stored input. DynamicEntity: reads
\* its body's transform from the physics scene, then writes its transform
\* to its render instance.
update(e, r, ph) ==
    IF e.kind = "Player"
    THEN Outcome([e EXCEPT !.transform =
                     Transform((e.transform.position + e.linear_input) % NPos,
                               (e.transform.rotation + e.angular_input) % NRot)],
                 r, ph, TRUE)
    ELSE LET g == IF e.rigid_body_instance # None
                  THEN get_rigid_body_transform(ph, e.rigid_body_instance[1])
                  ELSE [ok |-> TRUE, position |-> e.transform.position,
                        rotation |-> e.transform.rotation]
             e1 == [e EXCEPT !.transform = Transform(g.position, g.rotation)]
         IN  IF ~g.ok THEN Outcome(e, r, ph, FALSE)
             ELSE IF e1.model_instance # None
             THEN LET u == update_instance(r, e1.model_instance[1], e1.transform)
                  IN  Outcome(e1, u.rendering, ph, u.ok)
             ELSE Outcome(e1, r, ph, TRUE)

\* Entity::update_player_input, as [ok, entity]: DynamicEntity's is todo!()
update_player_input(e, linear_input, angular_input) ==
    IF e.kind = "Player"
    THEN [ok |-> TRUE,
          entity |-> [e EXCEPT !.linear_input = linear_input, !.angular_input = angular_input]]
    ELSE [ok |-> FALSE, entity |-> e]

\* Entity::get_camera_transform, as [ok, transform]: DynamicEntity's is todo!()
get_camera_transform(e) ==
    IF e.kind = "Player" THEN [ok |-> TRUE, transform |-> Some(e.transform)]
    ELSE [ok |-> FALSE, transform |-> None]

(***************************************************************************)
(* World                                                                   *)
(***************************************************************************)
WorldRec(es, pl, r, ph) == [entities |-> es, player_entity |-> pl, rendering |-> r, physics |-> ph]

\* World::new
World_new == WorldRec(SlotMap_new, NullKey, SceneRenderData_new, PhysicsScene_new)

\* a seeded slip: add_entity that never hands the entity its id
World_add_entity_no_id(w, entity) ==
    LET ins == SlotMap_insert(w.entities, entity)
        id == ins.key
        o == add_to_world(entity, w.rendering, w.physics)
    IN  [ok |-> o.ok, id |-> id,
         world |-> WorldRec(SlotMap_set(ins.map, id, o.entity), w.player_entity,
                            o.rendering, o.physics)]

\* World::add_entity, as [ok, id, world]
World_add_entity(w, entity) ==
    LET ins == SlotMap_insert(w.entities, entity)
        id == ins.key
        e == set_id(entity, id)
        o == add_to_world(e, w.rendering, w.physics)
    IN  [ok |-> o.ok, id |-> id,
         world |-> WorldRec(SlotMap_set(ins.map, id, o.entity), w.player_entity,
                            o.rendering, o.physics)]

\* a seeded slip: remove_entity that leaves the player registration alone
World_remove_entity_keeps_player(w, entity_id) ==
    LET got == SlotMap_get(w.entities, entity_id)
        es == SlotMap_remove(w.entities, entity_id)
        outs == IF got # None THEN remove_from_world(got[1], w.rendering, w.physics)
                ELSE {Outcome(Player_new(Transform_default), w.rendering, w.physics, TRUE)}
    IN  {[ok |-> o.ok,
          during |-> IF got # None THEN Some(es) ELSE None,
          world |-> WorldRec(es, w.player_entity, o.rendering, o.physics)] : o \in outs}

\* World::remove_entity: the set of outcomes [ok, during, world]. The entity
\* is taken out of the table first, then its remove_from_world runs: `during`
\* is the table as it is while remove_from_world runs (None when it does not
\* run).
World_remove_entity(w, entity_id) ==
    LET got == SlotMap_get(w.entities, entity_id)
        es == SlotMap_remove(w.entities, entity_id)
        outs == IF got # None THEN remove_from_world(got[1], w.rendering, w.physics)
                ELSE {Outcome(Player_new(Transform_default), w.rendering, w.physics, TRUE)}
    IN  {[ok |-> o.ok,
          during |-> IF got # None THEN Some(es) ELSE None,
          world |-> WorldRec(es,
                             IF o.ok /\ w.player_entity = entity_id THEN NullKey
                             ELSE w.player_entity,
                             o.rendering, o.physics)] : o \in outs}

\* World::set_player
World_set_player(w, player_id) == [w EXCEPT !.player_entity = player_id]

\* the next occupied slot of the entity table at or after `from` (the
\* iterator of SlotMap::iter_mut), 0 when there is none
NextOccupied(es, from) ==
    LET left == {i \in from..Len(es.slots) : es.slots[i].value # None}
    IN  IF left = {} THEN 0 ELSE CHOOSE i \in left : \A j \in left : i <= j

\* a seeded slip: update_player_input that forwards the input to the first
\* live entity of the table instead of the registered player
World_update_player_input_first(w, linear_input, angular_input) ==
    LET i == NextOccupied(w.entities, 1)
    IN  IF i = 0 THEN [ok |-> TRUE, world |-> w]
        ELSE LET u == update_player_input(w.entities.slots[i].value[1],
                                          linear_input, angular_input)
             IN  [ok |-> u.ok,
                  world |-> [w EXCEPT !.entities.slots[i].value = Some(u.entity)]]

\* World::update_player_input, as [ok, world]
World_update_player_input(w, linear_input, angular_input) ==
    LET player == SlotMap_get(w.entities, w.player_entity)
    IN  IF player = None THEN [ok |-> TRUE, world |-> w]
        ELSE LET u == update_player_input(player[1], linear_input, angular_input)
             IN  [ok |-> u.ok,
                  world |-> [w EXCEPT !.entities = SlotMap_set(@, w.player_entity, u.entity)]]

\* World::get_player_camera, as [ok, transform]
World_get_player_camera(w) ==
    LET e == SlotMap_get(w.entities, w.player_entity)
    IN  IF e = None THEN [ok |-> TRUE, transform |-> Transform_default]
        ELSE LET c == get_camera_transform(e[1])
             IN  [ok |-> c.ok,
                  transform |-> IF c.transform = None THEN Transform_default
                                ELSE c.transform[1]]

\* a seeded slip: World::update running the entities before the step
World_update_entities_first == <<"entities", "step_physics">>

\* the phases of World::update, in program order
World_update_phases == <<"step_physics", "entities">>

\* the phases of App::update, in program order: update_player_input, then
\* World::update
App_update_phases == <<"update_player_input">> \o World_update_phases

(***************************************************************************)
(* Spec: the World behind App. Between frames its public operations are    *)
(* called in any order; a frame (App::update) runs its phases in program   *)
(* order, one step each, and nothing else runs until it returns. A panic   *)
(* ends the program: nothing runs after it.                                *)
(***************************************************************************)
W == WorldRec(entities, player_entity, rendering, physics)

SetW(w) ==
    /\ entities' = w.entities
    /\ player_entity' = w.player_entity
    /\ rendering' = w.rendering
    /\ physics' = w.physics

\* the history of a call: its name, whether it returned, the id and entity
\* it was about, and the player registered when it was made
Op(name, ok, id, ent) ==
    [name |-> name, ok |-> ok, id |-> id, ent |-> ent, player |-> player_entity]

\* the history of a remove_entity call: with the table as it was while the
\* entity's remove_from_world ran
RemoveOp(ok, id, ent, during) ==
    [name |-> "remove_entity", ok |-> ok, id |-> id, ent |-> ent, player |-> player_entity,
     during |-> during]

NoFrame == [start |-> PhysicsScene_new, log |-> << >>]

Event(ev, idx, seen) == [ev |-> ev, idx |-> idx, seen |-> seen]

\* no asset call has been made
AssetInit ==
    /\ module_load = [called |-> FALSE]
    /\ mesh_load = [called |-> FALSE]

\* the world App::new builds, before any entity is added
WorldInit ==
    /\ entities = World_new.entities
    /\ player_entity = World_new.player_entity
    /\ rendering = World_new.rendering
    /\ physics = World_new.physics
    /\ pc = 0
    /\ cursor = 1
    /\ frame = NoFrame
    /\ op = Op("new", TRUE, NullKey, None)
    /\ drawn = << >>

Init ==
    /\ SetInit
    /\ AssetInit
    /\ WorldInit

Idle == pc = 0 /\ op.ok

\* the entities a caller constructs
NewEntities ==
    {Player_new(Transform_default)}
    \cup {DynamicEntity_new(Transform(p, 0), m, c) :
            p \in Positions, m \in {None} \cup {Some(t) : t \in InstanceTypes},
            c \in {None, Some("Box")}}

\* the entity ids a caller can hold: every key the table has issued, and the
\* null key
IssuedIds ==
    {NullKey} \cup
    UNION {{Key(i, v) : v \in {x \in 1..entities.slots[i].version : x % 2 = 1}}
           : i \in 1..Len(entities.slots)}

Call_add_entity ==
    \E entity \in NewEntities :
        /\ Idle
        /\ entities.free # << >> \/ Len(entities.slots) < MaxSlots
        /\ SlotMap_inserts(entities.slots) < MaxAdds
        /\ LET r == World_add_entity(W, entity)
           IN  /\ SetW(r.world)
               /\ op' = Op("add_entity", r.ok, r.id, Some(entity))
        /\ frame' = NoFrame /\ drawn' = << >>
        /\ UNCHANGED <<pc, cursor, setVars, assetVars>>

Call_remove_entity ==
    \E id \in IssuedIds :
        /\ Idle
        /\ \E r \in World_remove_entity(W, id) :
               /\ SetW(r.world)
               /\ op' = RemoveOp(r.ok, id, SlotMap_get(entities, id), r.during)
        /\ frame' = NoFrame /\ drawn' = << >>
        /\ UNCHANGED <<pc, cursor, setVars, assetVars>>

Call_set_player ==
    \E id \in IssuedIds :
        /\ Idle
        /\ SetW(World_set_player(W, id))
        /\ op' = Op("set_player", TRUE, NullKey, None)
        /\ frame' = NoFrame /\ drawn' = << >>
        /\ UNCHANGED <<pc, cursor, setVars, assetVars>>

\* world.world_info.physics.create_rigid_body, through the public fields
Call_create_rigid_body ==
    \E p \in Positions, q \in Rotations :
        /\ Idle
        /\ Len(physics.rigid_body_set.slots) < MaxBodies
        /\ LET r == create_rigid_body(physics, p, q)
           IN  /\ physics' = r.physics
               /\ op' = Op("create_rigid_body", TRUE, r.handle, None)
        /\ frame' = NoFrame /\ drawn' = << >>
        /\ UNCHANGED <<entities, player_entity, rendering, pc, cursor, setVars, assetVars>>

Call_set_rigid_body_angular_velocity ==
    \E h \in SlotMap_keys(physics.rigid_body_set), v \in {0, 1} :
        /\ Idle
        /\ LET r == set_rigid_body_angular_velocity(physics, h, v)
           IN  /\ physics' = r.physics
               /\ op' = Op("set_rigid_body_angular_velocity", r.ok, h, None)
        /\ frame' = NoFrame /\ drawn' = << >>
        /\ UNCHANGED <<entities, player_entity, rendering, pc, cursor, setVars, assetVars>>

\* App::render: the player camera (kept in the history), then render_scene
App_render ==
    /\ Idle
    /\ LET c == World_get_player_camera(W)
       IN  /\ op' = Op("render", c.ok, NullKey, Some(c.transform))
           /\ drawn' = IF c.ok THEN render_scene(rendering) ELSE << >>
    /\ frame' = NoFrame
    /\ UNCHANGED <<entities, player_entity, rendering, physics, pc, cursor, setVars, assetVars>>

\* ---- App::update, phase by phase ----
InFrame == op.ok /\ (pc # 0 => op.name = "update")

NextPhase == App_update_phases[pc + 1]

\* the phase counter after the current phase: back to 0 after the last
Advance == IF pc + 1 = Len(App_update_phases) THEN 0 ELSE pc + 1

\* the history of the frame so far (a frame starts when pc = 0)
FrameSoFar == IF pc = 0 THEN [start |-> physics, log |-> << >>] ELSE frame

Logged(ev, idx) == [FrameSoFar EXCEPT !.log = Append(@, Event(ev, idx, physics))]

Frame_update_player_input ==
    \E linear_input \in {0, 1}, angular_input \in {0, 1} :
        /\ InFrame
        /\ NextPhase = "update_player_input"
        /\ LET r == World_update_player_input(W, linear_input, angular_input)
           IN  /\ SetW(r.world)
               /\ op' = Op("update", r.ok, NullKey, Some(<<linear_input, angular_input>>))
        /\ frame' = Logged("input", 0)
        /\ pc' = Advance
        /\ drawn' = << >>
        /\ UNCHANGED <<cursor, setVars, assetVars>>

Frame_step_physics ==
    /\ InFrame
    /\ NextPhase = "step_physics"
    /\ physics' = step_physics(physics)
    /\ op' = Op("update", TRUE, NullKey, None)
    /\ frame' = Logged("step", 0)
    /\ pc' = Advance
    /\ drawn' = << >>
    /\ UNCHANGED <<entities, player_entity, rendering, cursor, setVars, assetVars>>

Frame_entity_update ==
    /\ InFrame
    /\ NextPhase = "entities"
    /\ NextOccupied(entities, cursor) # 0
    /\ LET i == NextOccupied(entities, cursor)
           id == Key(i, entities.slots[i].version)
           o == update(entities.slots[i].value[1], rendering, physics)
       IN  /\ entities' = SlotMap_set(entities, id, o.entity)
           /\ rendering' = o.rendering
           /\ physics' = o.physics
           /\ op' = Op("update", o.ok, NullKey, None)
           /\ frame' = Logged("update", i)
           /\ cursor' = i + 1
    /\ drawn' = << >>
    /\ UNCHANGED <<player_entity, pc, setVars, assetVars>>

Frame_entities_done ==
    /\ InFrame
    /\ NextPhase = "entities"
    /\ NextOccupied(entities, cursor) = 0
    /\ op' = Op("update", TRUE, NullKey, None)
    /\ frame' = FrameSoFar
    /\ cursor' = 1
    /\ pc' = Advance
    /\ drawn' = << >>
    /\ UNCHANGED <<entities, player_entity, rendering, physics, setVars, assetVars>>

Next ==
    \/ Call_add_entity
    \/ Call_remove_entity
    \/ Call_set_player
    \/ App_render
    \/ Frame_update_player_input
    \/ Frame_step_physics
    \/ Frame_entity_update
    \/ Frame_entities_done

Spec == Init /\ [][Next]_vars

SetSpec == Init /\ [][SetNext]_vars

\* PhysSpec: frames over a world whose physics scene the caller fills through
\* world.world_info.physics
PhysNext ==
    \/ Call_add_entity
    \/ Call_create_rigid_body
    \/ Call_set_rigid_body_angular_velocity
    \/ Frame_update_player_input
    \/ Frame_step_physics
    \/ Frame_entity_update
    \/ Frame_entities_done

PhysSpec == Init /\ [][PhysNext]_vars

(***************************************************************************)
(* SceneSpec: the SceneRenderData of the world, driven directly through    *)
(* world.world_info.rendering with any handle it has issued, removed ones  *)
(* included.                                                               *)
(***************************************************************************)
\* bound: instances the scene ever creates
MaxInstances == 2

\* the mesh and material handles the renderer has handed out
MeshHandles == {1, 2}
MaterialHandles == {1, 2}

SceneOp(name, ok, id, mesh, material) == Op(name, ok, id, Some(<<mesh, material>>))

Scene_create_instance ==
    \E mesh \in MeshHandles, material \in MaterialHandles, p \in Positions :
        /\ Idle
        /\ Len(rendering.instance_map.slots) < MaxInstances
        /\ LET c == create_instance(rendering, mesh, material, Transform(p, 0))
           IN  /\ rendering' = c.rendering
               /\ op' = SceneOp("create_instance", c.ok, c.handle[1], mesh, material)
        /\ UNCHANGED <<entities, player_entity, physics, pc, cursor, frame, drawn, setVars, assetVars>>

Scene_update_instance ==
    \E key \in SlotMap_keys(rendering.instance_map), p \in Positions, q \in Rotations :
        /\ Idle
        /\ LET u == update_instance(rendering, key, Transform(p, q))
           IN  /\ rendering' = u.rendering
               /\ op' = Op("update_instance", u.ok, key, None)
        /\ UNCHANGED <<entities, player_entity, physics, pc, cursor, frame, drawn, setVars, assetVars>>

Scene_remove_instance ==
    \E key \in SlotMap_keys(rendering.instance_map) :
        /\ Idle
        /\ \E r \in remove_instance(rendering, key) :
               /\ rendering' = r.rendering
               /\ op' = Op("remove_instance", r.ok, key, None)
        /\ UNCHANGED <<entities, player_entity, physics, pc, cursor, frame, drawn, setVars, assetVars>>

SceneNext ==
    \/ Scene_create_instance
    \/ Scene_update_instance
    \/ Scene_remove_instance

SceneSpec == Init /\ [][SceneNext]_vars

(***************************************************************************)
(* HandleSpec: the handle-taking operations of the PhysicsScene and of the *)
(* World, called with any handle that was ever issued, removed ones        *)
(* included.                                                               *)
(***************************************************************************)
\* bound: colliders the physics scene ever creates
MaxColliders == 2

\* the keys a slot map has issued so far
Issued(sm) ==
    UNION {{Key(i, v) : v \in {x \in 1..sm.slots[i].version : x % 2 = 1}}
           : i \in 1..Len(sm.slots)}

\* a physics call: the scene after it, and the history of the call
PhysicsCall(name, ok, handle, ph) ==
    /\ Idle
    /\ physics' = ph
    /\ op' = Op(name, ok, handle, None)
    /\ frame' = NoFrame /\ drawn' = << >>
    /\ UNCHANGED <<entities, player_entity, rendering, pc, cursor, setVars, assetVars>>

\* world.add_entity(Player::new()), as App::new does
Call_add_player ==
    /\ Idle
    /\ entities.free # << >> \/ Len(entities.slots) < MaxSlots
    /\ SlotMap_inserts(entities.slots) < MaxAdds
    /\ LET r == World_add_entity(W, Player_new(Transform_default))
       IN  /\ SetW(r.world)
           /\ op' = Op("add_entity", r.ok, r.id, Some(Player_new(Transform_default)))
    /\ frame' = NoFrame /\ drawn' = << >>
    /\ UNCHANGED <<pc, cursor, setVars, assetVars>>

Call_create_collider ==
    \E parent \in Issued(physics.rigid_body_set), p \in Positions :
        /\ SlotMap_inserts(physics.collider_set.slots) < MaxColliders
        /\ LET r == create_collider(physics, parent, p, 0)
           IN  PhysicsCall("create_collider", r.ok, r.handle, r.physics)

Call_remove_rigid_body ==
    \E h \in Issued(physics.rigid_body_set) :
        PhysicsCall("remove_rigid_body", TRUE, h, remove_rigid_body(physics, h))

Call_get_rigid_body_transform ==
    \E h \in Issued(physics.rigid_body_set) :
        PhysicsCall("get_rigid_body_transform", get_rigid_body_transform(physics, h).ok,
                    h, physics)

Call_set_rigid_body_transform ==
    \E h \in Issued(physics.rigid_body_set), p \in Positions :
        LET r == set_rigid_body_transform(physics, h, p, 0)
        IN  PhysicsCall("set_rigid_body_transform", r.ok, h, r.physics)

Call_remove_collider ==
    \E h \in Issued(physics.collider_set) :
        PhysicsCall("remove_collider", TRUE, h, remove_collider(physics, h))

Call_get_collider_transform ==
    \E h \in Issued(physics.collider_set) :
        PhysicsCall("get_collider_transform", get_collider_transform(physics, h).ok,
                    h, physics)

Call_set_collider_transform ==
    \E h \in Issued(physics.collider_set), p \in Positions :
        LET r == set_collider_transform(physics, h, p, 0)
        IN  PhysicsCall("set_collider_transform", r.ok, h, r.physics)

HandleNext ==
    \/ Call_add_player
    \/ Call_remove_entity
    \/ Call_create_rigid_body
    \/ Call_create_collider
    \/ Call_remove_rigid_body
    \/ Call_get_rigid_body_transform
    \/ Call_set_rigid_body_transform
    \/ Call_remove_collider
    \/ Call_get_collider_transform
    \/ Call_set_collider_transform

HandleSpec == Init /\ [][HandleNext]_vars

(***************************************************************************)
(* ColliderSpec: the physics scene driven through create_rigid_body,       *)
(* create_collider, remove_collider and remove_rigid_body, with any handle *)
(* it has issued; body slots are reused.                                   *)
(***************************************************************************)
\* bound: rigid bodies ColliderSpec ever creates
MaxParents == 2

Call_create_parent_body ==
    \E p \in Positions :
        /\ SlotMap_inserts(physics.rigid_body_set.slots) < MaxParents
        /\ LET r == create_rigid_body(physics, p, 0)
           IN  PhysicsCall("create_rigid_body", TRUE, r.handle, r.physics)

ColliderNext ==
    \/ Call_create_parent_body
    \/ Call_create_collider
    \/ Call_remove_collider
    \/ Call_remove_rigid_body

ColliderSpec == Init /\ [][ColliderNext]_vars

(***************************************************************************)
(* load_modules_from_directory: a directory tree is read entry by entry,   *)
(* in the order read_dir yields, into a table of module definitions; what  *)
(* goes wrong is written to the error log.                                 *)
(***************************************************************************)
\* bound: entries of the directory the caller names
MaxEntries == 2

\* a ModuleDefinition: its name, and the rest of its fields
ModuleDefinition(name, body) == [name |-> name, body |-> body]

Definitions ==
    {ModuleDefinition("a", 1), ModuleDefinition("a", 2), ModuleDefinition("b", 1)}

\* the text of a file: the JSON of a definition, or something else
Json(definition) == [json |-> TRUE, definition |-> definition]
Garbage == [json |-> FALSE, definition |-> ModuleDefinition("", 0)]

\* serde_json::from_str::<ModuleDefinition>, as [ok, module]
from_str(contents) == [ok |-> contents.json, module |-> contents.definition]

\* a directory read_dir cannot open (missing, not a directory, no access)
NoDir == [readable |-> FALSE, entries |-> << >>]
Dir(entries) == [readable |-> TRUE, entries |-> entries]

\* what read_dir yields: an error, a file, a directory, or something else
EntryErr ==
    [kind |-> "error", extension |-> "", readable |-> FALSE, contents |-> Garbage, dir |-> NoDir]
File(extension, readable, contents) ==
    [kind |-> "file", extension |-> extension, readable |-> readable,
     contents |-> contents, dir |-> NoDir]
SubDir(dir) ==
    [kind |-> "dir", extension |-> "", readable |-> FALSE, contents |-> Garbage, dir |-> dir]
Other ==
    [kind |-> "other", extension |-> "", readable |-> FALSE, contents |-> Garbage, dir |-> NoDir]

\* error!(..): one more line in the log
Logged_error(acc, msg, name) == [acc EXCEPT !.log = Append(@, [msg |-> msg, name |-> name])]

\* a seeded slip: a duplicate name replaces the definition loaded before
LoadFile_overwrite(entry, acc) ==
    IF ~entry.readable THEN Logged_error(acc, "Failed to read file", "")
    ELSE LET parsed == from_str(entry.contents)
             module == parsed.module
         IN  IF ~parsed.ok THEN Logged_error(acc, "Failed to deserialize file", "")
             ELSE [Logged_error(acc, "Duplicate module name", module.name) EXCEPT
                      !.table = MapInsert(acc.table, module.name, module)]

\* a seeded slip: a file that does not deserialize is skipped without a word
LoadFile_silent(entry, acc) ==
    IF ~entry.readable THEN Logged_error(acc, "Failed to read file", "")
    ELSE LET parsed == from_str(entry.contents)
             module == parsed.module
         IN  IF ~parsed.ok THEN acc
             ELSE IF module.name \in DOMAIN acc.table
             THEN Logged_error(acc, "Duplicate module name", module.name)
             ELSE [acc EXCEPT !.table = MapInsert(acc.table, module.name, module)]

\* the loop body for a regular file with the extension "module"
LoadFile(entry, acc) ==
    IF ~entry.readable THEN Logged_error(acc, "Failed to read file", "")
    ELSE LET parsed == from_str(entry.contents)
             module == parsed.module
         IN  IF ~parsed.ok THEN Logged_error(acc, "Failed to deserialize file", "")
             ELSE IF module.name \in DOMAIN acc.table
             THEN Logged_error(acc, "Duplicate module name", module.name)
             ELSE [acc EXCEPT !.table = MapInsert(acc.table, module.name, module)]

RECURSIVE load_modules_from_directory(_, _)
RECURSIVE LoadEntry(_, _)
RECURSIVE LoadEntries(_, _)

\* the loop body for one directory entry
LoadEntry(entry, acc) ==
    IF entry.kind = "error" THEN Logged_error(acc, "Failed to read directory entry", "")
    ELSE IF entry.kind = "file" /\ entry.extension = "module" THEN LoadFile(entry, acc)
    ELSE IF entry.kind = "dir" THEN load_modules_from_directory(entry.dir, acc)
    ELSE acc

\* the for loop over the entries
LoadEntries(entries, acc) ==
    IF entries = << >> THEN acc
    ELSE LoadEntries(Tail(entries), LoadEntry(Head(entries), acc))

\* load_modules_from_directory(directory_path, module_table): the table and
\* the log after it
load_modules_from_directory(directory, acc) ==
    IF directory.readable THEN LoadEntries(directory.entries, acc)
    ELSE Logged_error(acc, "Failed to read directory", "")

(***************************************************************************)
(* LoadSpec: one call of load_modules_from_directory, on any directory     *)
(* tree and any table of the bounds.                                       *)
(***************************************************************************)
\* the entries of a subdirectory
LeafEntries ==
    {EntryErr, Other, File("txt", TRUE, Json(ModuleDefinition("b", 1))),
     File("module", FALSE, Garbage), File("module", TRUE, Garbage)}
    \cup {File("module", TRUE, Json(d)) : d \in Definitions}

SubDirs == {NoDir, Dir(<< >>)} \cup {Dir(<<e>>) : e \in LeafEntries}

TopEntries == LeafEntries \cup {SubDir(d) : d \in SubDirs}

Directories ==
    {NoDir} \cup UNION {{Dir(es) : es \in [1..n -> TopEntries]} : n \in 0..MaxEntries}

\* the tables the caller hands in: empty, or holding a definition already
ModuleTables == {<< >>, [n \in {"a"} |-> ModuleDefinition("a", 2)]}

LoadInit ==
    /\ SetInit
    /\ WorldInit
    /\ mesh_load = [called |-> FALSE]
    /\ \E directory \in Directories, table \in ModuleTables :
           module_load = [called |-> FALSE, directory |-> directory, given |-> table,
                          table |-> table, log |-> << >>]

Load_call ==
    /\ ~module_load.called
    /\ LET r == load_modules_from_directory(module_load.directory,
                                            [table |-> module_load.given, log |-> << >>])
       IN  module_load' = [module_load EXCEPT !.called = TRUE, !.table = r.table,
                                               !.log = r.log]
    /\ UNCHANGED <<setVars, worldVars, mesh_load>>

LoadNext ==
    \/ Load_call

LoadSpec == LoadInit /\ [][LoadNext]_vars

(***************************************************************************)
(* Renderer::load_mesh: an OBJ file is parsed by tobj::load_obj into its   *)
(* models; the first model's arrays are zipped into vertices.              *)
(***************************************************************************)
\* bound: models of an OBJ file
MaxModels == 2

\* a tobj mesh, by the lengths of its arrays: positions and normals hold
\* three floats a vertex, texcoords two
ObjMesh(positions, normals, texcoords) ==
    [positions |-> positions, normals |-> normals, texcoords |-> texcoords]

\* tobj::load_obj answering Err (no file, not an OBJ), or Ok(models)
NoObj == [loadable |-> FALSE, models |-> << >>]
Obj(models) == [loadable |-> TRUE, models |-> models]

\* what load_mesh leaves: whether it returned (ok) or panicked, the handle
\* it returned, the error log and the renderer's mesh table
MeshResult(ok, handle, log, meshes) ==
    [ok |-> ok, handle |-> handle, log |-> log, meshes |-> meshes]

\* the vertices of the loop, or a panic at the first index out of bounds
RECURSIVE Vertices(_, _, _)
Vertices(mesh, i, vertices) ==
    IF i >= mesh.positions \div 3 THEN [ok |-> TRUE, vertices |-> vertices]
    ELSE IF i * 3 + 2 >= mesh.normals \/ i * 2 + 1 >= mesh.texcoords
    THEN [ok |-> FALSE, vertices |-> vertices]
    ELSE Vertices(mesh, i + 1, Append(vertices, [position |-> i * 3, normal |-> i * 3,
                                                 uv |-> i * 2]))

\* Renderer::create_mesh, as [key, map]
create_mesh(meshes, vertices) == SlotMap_insert(meshes, vertices)

\* Renderer::load_mesh
load_mesh(meshes, obj) ==
    IF ~obj.loadable
    THEN MeshResult(TRUE, None, <<[msg |-> "Failed to load obj file", name |-> ""]>>, meshes)
    ELSE IF Len(obj.models) = 0
    THEN MeshResult(FALSE, None, << >>, meshes)      \* models[0] panics
    ELSE LET v == Vertices(obj.models[1], 0, << >>)
             c == create_mesh(meshes, v.vertices)
         IN  IF ~v.ok THEN MeshResult(FALSE, None, << >>, meshes)
             ELSE MeshResult(TRUE, Some(c.key), << >>, c.map)

(***************************************************************************)
(* MeshSpec: one call of Renderer::load_mesh, on any file of the bounds.   *)
(***************************************************************************)
\* the lengths of the arrays of a mesh of up to two vertices
ObjMeshes ==
    {ObjMesh(p, n, t) : p \in {0, 3, 6}, n \in {0, 3, 6}, t \in {0, 2, 4}}

ObjFiles ==
    {NoObj} \cup UNION {{Obj(ms) : ms \in [1..n -> ObjMeshes]} : n \in 0..MaxModels}

MeshInit ==
    /\ SetInit
    /\ WorldInit
    /\ module_load = [called |-> FALSE]
    /\ \E obj \in ObjFiles :
           mesh_load = [called |-> FALSE, obj |-> obj,
                        result |-> MeshResult(TRUE, None, << >>, SlotMap_new)]

Mesh_load ==
    /\ ~mesh_load.called
    /\ mesh_load' = [mesh_load EXCEPT !.called = TRUE,
                                      !.result = load_mesh(SlotMap_new, mesh_load.obj)]
    /\ UNCHANGED <<setVars, worldVars, module_load>>

MeshNext ==
    \/ Mesh_load

MeshSpec == MeshInit /\ [][MeshNext]_vars

(***************************************************************************)
(* Properties of the InstanceSet (SetSpec)                                 *)
(***************************************************************************)
Live == DOMAIN set.instance_map

SlotOf(h) == set.instance_map[h].index

\* C1: after every add / remove the recorded slots of the live handles are
\* pairwise distinct and each is < count: they are exactly [0, count).
C1_SlotsContiguous ==
    setOp.ok =>
        /\ \A h \in Live : SlotOf(h) < set.count
        /\ \A h, k \in Live : h # k => SlotOf(h) # SlotOf(k)

\* C2: remove(h) of a live handle at slot s with count n: when s # n-1 the
\* handle at slot n-1 moves to slot s (mapping and buffer), every other live
\* handle keeps its slot; when s = n-1 nothing moves; count becomes n-1.
C2_RemoveBackfills ==
    [][setOp'.name = "remove" =>
        LET h == setOp'.key
            s == set.instance_map[h].index
            n == set.count
        IN  /\ set'.count = n - 1
            /\ DOMAIN set'.instance_map = DOMAIN set.instance_map \ {h}
            /\ \A k \in DOMAIN set'.instance_map :
                  IF s # n - 1 /\ set.instance_map[k].index = n - 1
                  THEN /\ set'.instance_map[k].index = s
                       /\ BufferAt(set', s) = set.instance_map[k].data
                  ELSE set'.instance_map[k].index = set.instance_map[k].index]_vars

\* C4: after any add / update / remove, the buffer element at every live
\* handle's recorded slot is that handle's most recently written matrix.
C4_BufferHoldsLatest ==
    setOp.ok => \A h \in Live : BufferAt(set, SlotOf(h)) = set.instance_map[h].data

\* C5: after every add (fresh handle, within capacity) and remove (live
\* handle), count is the number of handles in the handle->slot mapping.
C5_CountIsLive == setOp.ok => set.count = Cardinality(Live)

\* C5 happens: a removal that moved an entry has run and instances remain
C5_Witness == setOp.name = "remove" /\ setOp.moved /\ set.count >= 1

\* C10: add at count = capacity fails and leaves count, the mapping and the
\* buffer as they were.
C10_FullAddChangesNothing ==
    [][(setOp'.name = "add" /\ set.count = set.capacity) =>
        /\ ~setOp'.ok
        /\ set'.count = set.count
        /\ set'.instance_map = set.instance_map
        /\ set'.buffer = set.buffer]_vars

\* C12: update(h, M2) of a live handle stores M2 for h (in the mapping and in
\* the buffer at h's slot), keeps h's slot and the count, and leaves every
\* other handle's slot and stored matrix, and every other buffer element, as
\* they were.
C12_UpdateInPlace ==
    [][setOp'.name = "update" =>
        LET h == setOp'.key
            M2 == setOp'.data
            index == set.instance_map[h].index
        IN  /\ setOp'.ok
            /\ DOMAIN set'.instance_map = DOMAIN set.instance_map
            /\ set'.instance_map[h] = Entry(index, M2)
            /\ BufferAt(set', index) = M2
            /\ set'.count = set.count
            /\ \A k \in DOMAIN set.instance_map \ {h} :
                   set'.instance_map[k] = set.instance_map[k]
            /\ \A i \in (0..set.capacity) \ {index} : BufferAt(set', i) = BufferAt(set, i)]_vars

\* C12 happens: a handle was updated to a matrix another live handle does
\* not hold
C12_Witness ==
    /\ setOp.name = "update" /\ setOp.ok
    /\ set.instance_map[setOp.key].data = setOp.data
    /\ \E k \in Live \ {setOp.key} : set.instance_map[k].data # setOp.data

(***************************************************************************)
(* Properties of the World (Spec, PhysSpec)                                *)
(***************************************************************************)
Occupied(es) == {i \in 1..Len(es.slots) : es.slots[i].value # None}

EntityAt(es, i) == es.slots[i].value[1]

\* the batch an instance handle was created in
BatchOf(r, h) == r.instance_set_map[r.instance_map.slots[h.idx].value[1]]

\* C3: at every render_scene call, the slots the draw of each batch reads
\* each hold the latest matrix of a distinct live instance of the batch, and
\* every live instance of the batch is among them.
C3_DrawReadsLive ==
    (op.name = "render" /\ op.ok) =>
        \A t \in DOMAIN rendering.instance_set_map :
            LET s == rendering.instance_set_map[t]
                d == drawn[t]
                live == DOMAIN s.instance_map
            IN  \E f \in [1..Len(d) -> live] :
                    /\ \A i, j \in 1..Len(d) : i # j => f[i] # f[j]
                    /\ \A h \in live : \E i \in 1..Len(d) : f[i] = h
                    /\ \A i \in 1..Len(d) : d[i] = s.instance_map[f[i]].data

\* C6: after remove_entity of an entity, the render instance it owned is
\* resolvable neither in the scene's handle->key table nor in any batch, and
\* the collider and rigid body it owned are not resolvable in the physics
\* scene.
C6_RemovedIsReleased ==
    (op.name = "remove_entity" /\ op.ok /\ op.ent # None) =>
        LET e == op.ent[1]
        IN  /\ e.model_instance # None =>
                /\ ~SlotMap_contains_key(rendering.instance_map, e.model_instance[1])
                /\ \A t \in DOMAIN rendering.instance_set_map :
                      e.model_instance[1] \notin DOMAIN rendering.instance_set_map[t].instance_map
            /\ e.collider_instance # None =>
                ~SlotMap_contains_key(physics.collider_set, e.collider_instance[1])
            /\ e.rigid_body_instance # None =>
                ~SlotMap_contains_key(physics.rigid_body_set, e.rigid_body_instance[1])

\* C7: remove_entity(e) leaves every other live entity's render instance
\* live, with its stored matrix unchanged and its slot inside its batch's
\* draw range [0, count), and leaves its rigid body and collider live.
C7_OthersUntouched ==
    [][(op'.name = "remove_entity" /\ op'.ok) =>
        \A i \in Occupied(entities') :
            LET e == EntityAt(entities', i)
            IN  /\ e.model_instance # None =>
                    LET h == e.model_instance[1]
                        before == BatchOf(rendering, h)
                        after == BatchOf(rendering', h)
                    IN  /\ h \in DOMAIN after.instance_map
                        /\ after.instance_map[h].data = before.instance_map[h].data
                        /\ after.instance_map[h].index < after.count
                /\ e.rigid_body_instance # None =>
                    SlotMap_contains_key(physics'.rigid_body_set, e.rigid_body_instance[1])
                /\ e.collider_instance # None =>
                    SlotMap_contains_key(physics'.collider_set, e.collider_instance[1])]_vars

IsPrefix(a, b) == Len(a) <= Len(b) /\ \A i \in 1..Len(a) : a[i] = b[i]

\* the occupied slots of the entity table, in ascending order
RECURSIVE OccupiedFrom(_, _)
OccupiedFrom(es, from) ==
    IF from > Len(es.slots) THEN << >>
    ELSE (IF es.slots[from].value # None THEN <<from>> ELSE << >>) \o OccupiedFrom(es, from + 1)

\* what a frame is to do, in order: the input, one step, each live entity once
FramePlan ==
    <<<<"input", 0>>, <<"step", 0>>>>
    \o [k \in 1..Len(OccupiedFrom(entities, 1)) |-> <<"update", OccupiedFrom(entities, 1)[k]>>]

FrameDone == [k \in 1..Len(frame.log) |-> <<frame.log[k].ev, frame.log[k].idx>>]

\* C8: in every frame the phases run in the order input, one physics step,
\* each live entity's update once; no entity update precedes the step, none
\* is repeated, and a frame that returns has skipped none.
C8_FrameOrder ==
    frame.log # << >> =>
        /\ IsPrefix(FrameDone, FramePlan)
        /\ (pc = 0 => FrameDone = FramePlan)

\* C8 happens: a frame over two live entities has returned
C8_Witness ==
    /\ pc = 0 /\ op.ok /\ op.name = "update"
    /\ Len(frame.log) = 4
    /\ Cardinality(Occupied(entities)) = 2

Batches == DOMAIN rendering.instance_set_map

\* the handles live in the batch of key t
LiveIn(r, t) == DOMAIN r.instance_set_map[t].instance_map

\* the handles live in some batch
LiveInstances(r) == UNION {LiveIn(r, t) : t \in DOMAIN r.instance_set_map}

\* a handle the scene issued and remove_instance has since removed
Removed(r, h) == SlotMap_contains_key(r.instance_map, h) /\ h \notin LiveInstances(r)

\* C11: update_instance(h, .) or remove_instance(h) of a handle that
\* remove_instance(h) removed before fails and leaves every batch (the slots,
\* stored matrices, mapping entries and count of the live instances) as it
\* was.
C11_RemovedHandleTouchesNothing ==
    [][(op'.name \in {"update_instance", "remove_instance"} /\ Removed(rendering, op'.id)) =>
        /\ ~op'.ok
        /\ rendering'.instance_set_map = rendering.instance_set_map]_vars

\* C11 happens: a removed handle was used again while another instance of
\* its batch was live
C11_Witness ==
    /\ op.name \in {"update_instance", "remove_instance"}
    /\ ~op.ok
    /\ Removed(rendering, op.id)
    /\ \E t \in Batches :
           /\ rendering.instance_map.slots[op.id.idx].value = Some(t)
           /\ LiveIn(rendering, t) # {}

\* C13: create_instance(mesh, material, .) stores the new handle in the batch
\* keyed (mesh, material) and in no other, creating that batch only when the
\* key has none and otherwise keeping the batch and what it holds;
\* update_instance / remove_instance of a handle change no batch but the one
\* the handle is stored in; and no live handle ever changes batch.
C13_BatchKeyedByType ==
    [][/\ (op'.name = "create_instance" /\ op'.ok) =>
            LET t == [mesh |-> op'.ent[1][1], material |-> op'.ent[1][2]]
            IN  /\ DOMAIN rendering'.instance_set_map = DOMAIN rendering.instance_set_map \cup {t}
                /\ \A u \in DOMAIN rendering'.instance_set_map :
                       op'.id \in LiveIn(rendering', u) <=> u = t
                /\ t \in DOMAIN rendering.instance_set_map =>
                       LiveIn(rendering', t) = LiveIn(rendering, t) \cup {op'.id}
                /\ \A u \in DOMAIN rendering.instance_set_map \ {t} :
                       rendering'.instance_set_map[u] = rendering.instance_set_map[u]
       /\ (op'.name \in {"update_instance", "remove_instance"} /\ op'.ok) =>
            /\ DOMAIN rendering'.instance_set_map = DOMAIN rendering.instance_set_map
            /\ \A u \in DOMAIN rendering.instance_set_map :
                   op'.id \notin LiveIn(rendering, u) =>
                       rendering'.instance_set_map[u] = rendering.instance_set_map[u]
       /\ \A t \in DOMAIN rendering.instance_set_map : \A h \in LiveIn(rendering, t) :
            \A u \in DOMAIN rendering'.instance_set_map :
                h \in LiveIn(rendering', u) => u = t]_vars

\* C13 happens: two batches whose keys share the mesh hold instances, and
\* one of the instances has been updated
C13_Witness ==
    /\ op.name = "update_instance" /\ op.ok
    /\ \E t, u \in Batches :
           /\ t # u /\ t.mesh = u.mesh
           /\ op.id \in LiveIn(rendering, t)
           /\ LiveIn(rendering, u) # {}

(***************************************************************************)
(* Properties of the World (Spec), continued                               *)
(***************************************************************************)
\* the live entities that hold the render-instance handle h
OwnersOf(es, h) == {i \in Occupied(es) : EntityAt(es, i).model_instance = Some(h)}

\* the render-instance handles the scene resolves: in its handle table or in
\* a batch
SceneHandles(r) == SlotMap_keys(r.instance_map) \cup LiveInstances(r)

\* C14: after every add_entity, remove_entity and update step, every render
\* instance the Render Scene holds is held by exactly one live entity (an
\* entity holds at most one instance and one body: its fields are options),
\* and an update step creates or destroys no instance, body or collider.
C14_OwnershipExact ==
    [][/\ op'.ok => \A h \in SceneHandles(rendering') :
                        Cardinality(OwnersOf(entities', h)) = 1
       /\ op'.name = "update" =>
            /\ SceneHandles(rendering') = SceneHandles(rendering)
            /\ LiveInstances(rendering') = LiveInstances(rendering)
            /\ SlotMap_keys(physics'.rigid_body_set) = SlotMap_keys(physics.rigid_body_set)
            /\ SlotMap_keys(physics'.collider_set) = SlotMap_keys(physics.collider_set)]_vars

\* a key the slot map issued and has since removed
Stale(sm, k) == k \in Issued(sm) /\ ~SlotMap_contains_key(sm, k)

\* C16: the id add_entity returns was never returned before, an id reaches
\* only the entity that was given it at insertion, and an id whose entity was
\* removed reaches nothing even when its slot holds a later entity:
\* update_player_input changes no entity, get_player_camera gives the
\* default transform, remove_entity removes nothing.
C16_NoAliasing ==
    [][/\ op'.name = "add_entity" => op'.id \notin IssuedIds
       /\ \A k \in Issued(entities') :
            SlotMap_get(entities', k) # None => SlotMap_get(entities', k)[1].id = k
       /\ (pc = 0 /\ pc' = 1 /\ Stale(entities, player_entity)) => entities' = entities
       /\ (op'.name = "render" /\ Stale(entities, player_entity)) =>
            op'.ok /\ op'.ent = Some(Transform_default)
       /\ (op'.name = "remove_entity" /\ Stale(entities, op'.id)) =>
            /\ entities' = entities
            /\ rendering' = rendering
            /\ physics' = physics]_vars

\* C16 happens: the camera was asked through an id whose entity was removed
\* and whose slot holds a later entity
C16_Witness ==
    /\ op.name = "render" /\ op.ok
    /\ Stale(entities, player_entity)
    /\ player_entity.idx \in Occupied(entities)

\* C17: remove_entity(id) of the registered player leaves player_entity the
\* null id, and of any other id leaves player_entity as it was; while
\* player_entity is the null id update_player_input changes no entity and
\* get_player_camera gives the default transform; and player_entity changes
\* through set_player and remove_entity only.
C17_PlayerUnassigned ==
    [][/\ (op'.name = "remove_entity" /\ op'.ok) =>
            player_entity' = IF player_entity = op'.id THEN NullKey ELSE player_entity
       /\ (pc = 0 /\ pc' = 1 /\ player_entity = NullKey) => entities' = entities
       /\ (op'.name = "render" /\ player_entity = NullKey) =>
            op'.ok /\ op'.ent = Some(Transform_default)
       /\ player_entity' # player_entity => op'.name \in {"set_player", "remove_entity"}]_vars

\* C17 happens: the registered player, a live entity, has been removed while
\* another entity stays
C17_Witness ==
    /\ op.name = "remove_entity" /\ op.ok
    /\ op.ent # None
    /\ op.player = op.id
    /\ Occupied(entities) # {}

\* C18: update_player_input(linear, angular) stores the two inputs in the
\* entity registered as player, changes nothing else of that entity and no
\* other entity; when the registered id names no live entity it changes
\* nothing.
C18_InputToPlayerOnly ==
    [][(pc = 0 /\ pc' = 1) =>
        LET p == SlotMap_get(entities, player_entity)
        IN  /\ player_entity' = player_entity
            /\ rendering' = rendering
            /\ physics' = physics
            /\ IF p = None \/ ~op'.ok THEN entities' = entities
               ELSE /\ entities'.free = entities.free
                    /\ Len(entities'.slots) = Len(entities.slots)
                    /\ \A i \in 1..Len(entities.slots) :
                           entities'.slots[i] =
                               IF i = player_entity.idx
                               THEN [version |-> entities.slots[i].version,
                                     value |-> Some([p[1] EXCEPT
                                                       !.linear_input = op'.ent[1][1],
                                                       !.angular_input = op'.ent[1][2]])]
                               ELSE entities.slots[i]
            /\ p = None => op'.ok]_vars

\* C18 happens: an input was stored in the player while another entity,
\* holding no input, was live
C18_Witness ==
    /\ pc = 1 /\ op.ok /\ op.ent = Some(<<1, 1>>)
    /\ SlotMap_get(entities, player_entity) # None
    /\ SlotMap_get(entities, player_entity)[1].linear_input = 1
    /\ \E i \in Occupied(entities) :
           i # player_entity.idx /\ EntityAt(entities, i).linear_input = 0

\* the registered player is a live DynamicEntity
PlayerIsDynamic ==
    /\ SlotMap_get(entities, player_entity) # None
    /\ SlotMap_get(entities, player_entity)[1].kind = "DynamicEntity"

\* C19: with a DynamicEntity registered as player, update_player_input
\* returns having changed nothing and get_player_camera returns the default
\* transform; neither fails.
C19_DynamicEntityIgnoresInput ==
    [][/\ (pc = 0 /\ pc' = 1 /\ PlayerIsDynamic) =>
            /\ op'.ok
            /\ entities' = entities /\ rendering' = rendering /\ physics' = physics
       /\ (op'.name = "render" /\ PlayerIsDynamic) =>
            op'.ok /\ op'.ent = Some(Transform_default)]_vars

C15_StaleHandleFails ==
    [][/\ (/\ op'.name \in {"get_rigid_body_transform", "set_rigid_body_transform",
                             "remove_rigid_body"}
           /\ Stale(physics.rigid_body_set, op'.id)) => ~op'.ok
       /\ (/\ op'.name \in {"get_collider_transform", "set_collider_transform",
                             "remove_collider"}
           /\ Stale(physics.collider_set, op'.id)) => ~op'.ok
       /\ (op'.name = "remove_entity" /\ Stale(entities, op'.id)) => ~op'.ok]_vars

(***************************************************************************)
(* Properties of the physics scene (ColliderSpec)                          *)
(***************************************************************************)
\* the live colliders of a physics scene, by slot
LiveColliders(ph) ==
    {i \in 1..Len(ph.collider_set.slots) : ph.collider_set.slots[i].value # None}

ParentOf(ph, i) == ph.collider_set.slots[i].value[1].parent

\* C21: after every create_rigid_body, create_collider, remove_collider and
\* remove_rigid_body the parent of every live collider (a collider has one
\* parent field) is a live rigid body; remove_rigid_body of a live body
\* removes every collider parented to it and no other collider;
\* remove_collider removes no body.
C21_ColliderParentLive ==
    [][/\ op'.ok => \A i \in LiveColliders(physics') :
                        SlotMap_contains_key(physics'.rigid_body_set, ParentOf(physics', i))
       /\ (/\ op'.name = "remove_rigid_body"
           /\ SlotMap_contains_key(physics.rigid_body_set, op'.id)) =>
            /\ ~SlotMap_contains_key(physics'.rigid_body_set, op'.id)
            /\ LiveColliders(physics') =
                   {i \in LiveColliders(physics) : ParentOf(physics, i) # op'.id}
            /\ \A i \in LiveColliders(physics') :
                   physics'.collider_set.slots[i] = physics.collider_set.slots[i]
       /\ op'.name = "remove_collider" =>
            physics'.rigid_body_set = physics.rigid_body_set]_vars

\* C21 happens: a body with a collider was removed while another body kept
\* its collider
C21_Witness ==
    /\ op.name = "remove_rigid_body" /\ op.ok
    /\ Stale(physics.rigid_body_set, op.id)
    /\ \E i \in 1..Len(physics.collider_set.slots) :
           physics.collider_set.slots[i].version = 2
    /\ LiveColliders(physics) # {}

(***************************************************************************)
(* Properties of load_modules_from_directory (LoadSpec)                    *)
(***************************************************************************)
\* the definitions of the valid .module files of a tree, in the order the
\* walk meets them
RECURSIVE ModulesIn(_)
ModulesIn(directory) ==
    LET of(entry) ==
            IF entry.kind = "file" /\ entry.extension = "module" /\ entry.readable
               /\ entry.contents.json
            THEN <<entry.contents.definition>>
            ELSE IF entry.kind = "dir" THEN ModulesIn(entry.dir)
            ELSE << >>
        walk[i \in 0..Len(directory.entries)] ==
            IF i = 0 THEN << >> ELSE walk[i - 1] \o of(directory.entries[i])
    IN  IF directory.readable THEN walk[Len(directory.entries)] ELSE << >>

\* the things of a tree that cannot be read: directories, entries, files
RECURSIVE FailuresIn(_)
FailuresIn(directory) ==
    LET of(entry) ==
            IF entry.kind = "error" THEN 1
            ELSE IF entry.kind = "file" /\ entry.extension = "module"
                    /\ (~entry.readable \/ ~entry.contents.json) THEN 1
            ELSE IF entry.kind = "dir" THEN FailuresIn(entry.dir)
            ELSE 0
        sum[i \in 0..Len(directory.entries)] ==
            IF i = 0 THEN 0 ELSE sum[i - 1] + of(directory.entries[i])
    IN  IF directory.readable THEN sum[Len(directory.entries)] ELSE 1

\* the positions of the name n among the definitions met
Occurrences(n) ==
    {i \in 1..Len(ModulesIn(module_load.directory)) :
        ModulesIn(module_load.directory)[i].name = n}

\* the definition of the name n that was there first: the one of the table
\* handed in, else the first one met
FirstLoaded(n) ==
    IF n \in DOMAIN module_load.given THEN module_load.given[n]
    ELSE ModulesIn(module_load.directory)[
             CHOOSE i \in Occurrences(n) : \A j \in Occurrences(n) : i <= j]

DuplicatesLogged(n) ==
    Cardinality({i \in 1..Len(module_load.log) :
                    module_load.log[i] = [msg |-> "Duplicate module name", name |-> n]})

\* the names that occur in the table handed in or in the tree
NamesSeen ==
    DOMAIN module_load.given
    \cup {ModulesIn(module_load.directory)[i].name :
             i \in 1..Len(ModulesIn(module_load.directory))}

\* C22: after the call, a name that several definitions declare has one
\* entry in the table, holding the definition that was there first, and one
\* error is logged for each later definition of the name.
C22_FirstDefinitionWins ==
    module_load.called =>
        \A n \in NamesSeen :
            /\ n \in DOMAIN module_load.table
            /\ module_load.table[n] = FirstLoaded(n)
            /\ DuplicatesLogged(n) =
                   Cardinality(Occurrences(n)) - (IF n \in DOMAIN module_load.given THEN 0 ELSE 1)

\* C22 happens: a name was declared twice, with different definitions
C22_Witness ==
    /\ module_load.called
    /\ \E i, j \in Occurrences("a") :
           /\ i < j
           /\ ModulesIn(module_load.directory)[i] # ModulesIn(module_load.directory)[j]
    /\ "a" \notin DOMAIN module_load.given

\* C23: the call returns; the table then holds exactly the names handed in
\* and the names of the valid .module files of the tree, every name that one
\* valid file alone declares with that file's definition; and the log holds
\* one line for every directory, entry and file that could not be read and
\* for every duplicate.
C23_LoadContinues ==
    module_load.called =>
        /\ DOMAIN module_load.table = NamesSeen
        /\ \A n \in DOMAIN module_load.given : module_load.table[n] = module_load.given[n]
        /\ \A n \in NamesSeen \ DOMAIN module_load.given :
               Cardinality(Occurrences(n)) = 1 =>
                   \A i \in Occurrences(n) :
                       module_load.table[n] = ModulesIn(module_load.directory)[i]
        /\ Len(module_load.log) =
               FailuresIn(module_load.directory)
               + Len(ModulesIn(module_load.directory))
               - Cardinality(NamesSeen \ DOMAIN module_load.given)
        /\ \A i \in 1..Len(module_load.log) :
               module_load.log[i].msg \in
                   {"Failed to read file", "Failed to deserialize file",
                    "Duplicate module name", "Failed to read directory entry",
                    "Failed to read directory"}

\* C23 happens: a valid file of a subdirectory was loaded after a file that
\* does not deserialize
C23_Witness ==
    /\ module_load.called
    /\ module_load.directory.readable
    /\ Len(module_load.directory.entries) = 2
    /\ module_load.directory.entries[1] = File("module", TRUE, Garbage)
    /\ module_load.directory.entries[2] = SubDir(Dir(<<File("module", TRUE, Json(ModuleDefinition("b", 1)))>>))
    /\ "b" \in DOMAIN module_load.table

(***************************************************************************)
(* Properties of Renderer::load_mesh (MeshSpec)                            *)
(***************************************************************************)
\* a file load_mesh cannot make a mesh of: not an OBJ, no model, or a first
\* model with fewer normals or texture coordinates than positions
Malformed(obj) ==
    \/ ~obj.loadable
    \/ obj.models = << >>
    \/ obj.models[1].normals < obj.models[1].positions
    \/ obj.models[1].texcoords * 3 < obj.models[1].positions * 2

\* C24: load_mesh of a missing or malformed file returns None, having
\* logged an error, and does not fail.
C24_LoadMeshAbsent ==
    (mesh_load.called /\ Malformed(mesh_load.obj)) =>
        /\ mesh_load.result.ok
        /\ mesh_load.result.handle = None
        /\ mesh_load.result.log # << >>

(***************************************************************************)
(* Properties of the frame and of the entity's resources (Spec)            *)
(***************************************************************************)
\* World::update has returned
UpdateReturned == pc = 0 /\ op.name = "update" /\ op.ok

\* C25: when World::update has returned, the render instance of every live
\* DynamicEntity that has one is live in its batch and stores the model
\* matrix of the entity's transform, and the transform of an entity with a
\* rigid body is that body's transform in the stepped physics scene.
C25_InstanceFollowsTransform ==
    UpdateReturned =>
        \A i \in Occupied(entities) :
            LET e == EntityAt(entities, i)
            IN  (e.kind = "DynamicEntity" /\ e.model_instance # None) =>
                    /\ e.model_instance[1] \in LiveInstances(rendering)
                    /\ BatchOf(rendering, e.model_instance[1])
                           .instance_map[e.model_instance[1]].data
                       = as_model_matrix(e.transform)
                    /\ e.rigid_body_instance # None =>
                           LET g == get_rigid_body_transform(physics, e.rigid_body_instance[1])
                           IN  g.ok /\ e.transform = Transform(g.position, g.rotation)

\* C25 happens: a frame has returned over two DynamicEntities with render
\* instances, one of them away from the origin
C25_Witness ==
    /\ UpdateReturned
    /\ Len(frame.log) = 4
    /\ \A i \in Occupied(entities) :
           EntityAt(entities, i).kind = "DynamicEntity"
           /\ EntityAt(entities, i).model_instance # None
    /\ \E i \in Occupied(entities) : EntityAt(entities, i).transform.position = 1

\* C26: after add_entity of a DynamicEntity, an entity constructed with a
\* model holds a live render instance, and an entity constructed with a
\* collider definition holds a live rigid body and a live collider whose
\* parent is that body.
C26_AddRegistersResources ==
    [][(op'.name = "add_entity" /\ op'.ok /\ op'.ent[1].kind = "DynamicEntity") =>
        LET given == op'.ent[1]
            e == SlotMap_get(entities', op'.id)[1]
        IN  /\ given.model # None =>
                   /\ e.model_instance # None
                   /\ e.model_instance[1] \in LiveInstances(rendering')
            /\ given.collider # None =>
                   /\ e.rigid_body_instance # None
                   /\ SlotMap_contains_key(physics'.rigid_body_set, e.rigid_body_instance[1])
                   /\ e.collider_instance # None
                   /\ SlotMap_contains_key(physics'.collider_set, e.collider_instance[1])
                   /\ SlotMap_get(physics'.collider_set, e.collider_instance[1])[1].parent
                      = e.rigid_body_instance[1]]_vars

\* C27: remove_entity of a live entity runs the entity's remove_from_world
\* while the entity is still in the entity table, and the entity is out of
\* the table when remove_entity returns.
C27_ReleaseBeforeErase ==
    [][(op'.name = "remove_entity" /\ op'.ent # None) =>
        /\ op'.during # None
        /\ SlotMap_contains_key(op'.during[1], op'.id)
        /\ op'.ok => ~SlotMap_contains_key(entities', op'.id)]_vars

\* C28: an add and an update that return have issued exactly one buffer write,
\* of the given data at byte offset (the handle's slot * element size); a
\* remove that returns has issued exactly one write, of the moved entry's data
\* at the removed slot's byte offset, when it moved an entry to the removed
\* slot, and no write, leaving every remaining entry as it was, otherwise.
C28_OneWritePerOperation ==
    [][/\ (setOp'.name \in {"add", "update"} /\ setOp'.ok) =>
            setOp'.writes = <<[offset |-> set'.instance_map[setOp'.key].index * size_of_T,
                               data |-> setOp'.data]>>
       /\ (setOp'.name = "remove" /\ setOp'.ok) =>
            IF setOp'.backfill # None
            THEN LET moved == set'.instance_map[setOp'.backfill[1]]
                 IN  /\ moved.index = setOp'.slot
                     /\ setOp'.writes = <<[offset |-> setOp'.slot * size_of_T,
                                           data |-> moved.data]>>
            ELSE /\ setOp'.writes = << >>
                 /\ \A k \in DOMAIN set'.instance_map :
                        set'.instance_map[k] = set.instance_map[k]]_vars

\* C28 happens: a remove moved an entry to a removed slot other than slot 0
\* and wrote it there
C28_Witness ==
    /\ setOp.name = "remove" /\ setOp.ok
    /\ setOp.backfill # None
    /\ setOp.slot >= 1
    /\ Len(setOp.writes) = 1
====
